---- MODULE Spec2Model ----
(***************************************************************************)
(* Little Lemon REST API: the Booking and Menu view sets                   *)
(* (restaurantapi/views.py), the booking serializer's validation           *)
(* (restaurantapi/serializers.py) and the two permission classes           *)
(* (restaurantapi/permissions.py).                                         *)
(*                                                                         *)
(* A handler is an operator from the tables and the request to the new      *)
(* tables and the response; an action applies one handler to the state.    *)
(*                                                                         *)
(* Spec      sequential booking API: one whole request per step.           *)
(* SpecMenu  sequential menu API.                                          *)
(* SpecConc  two POST /bookings/ requests whose database operations        *)
(*           interleave (no transaction wraps a request).                  *)
(***************************************************************************)
EXTENDS Integers, FiniteSets, TLC

VARIABLES bookings, nextId, menus, nextMenuId, reqs

vars == <<bookings, nextId, menus, nextMenuId, reqs>>

----------------------------------------------------------------------------
(* Bounds and input sets *)

\* rows ever inserted into one table (the auto-increment primary key is capped)
MaxId == 2

\* rows ever inserted into the menu table
MaxMenuId == 3

Anonymous == "anon"
Users == {"alice", "bob", "root"}
Requesters == Users \cup {Anonymous}

None == "None"
Names == {"Ana", "Ana B"}
Dates == {"2024-05-01", "2024-05-02"}
\* an absent reservation_slot key of the request body
NoSlot == 0
Slots == {9, 10, 20, 21}
Ids == 1..MaxId
MenuIds == 1..MaxMenuId

Titles == {"Greek salad", "Bruschetta"}
Prices == {5, 12}
Methods == {"GET", "HEAD", "OPTIONS", "POST", "PUT", "PATCH", "DELETE"}

Procs == {"p1", "p2"}
ConcSlots == {10, 20}

----------------------------------------------------------------------------
(* The authentication collaborator: identity and flags of the requester *)

is_authenticated(user) == user \in Users

is_superuser(user) == user = "root"

----------------------------------------------------------------------------
(* restaurantapi/permissions.py *)

IsAuthenticated(user) == is_authenticated(user)

has_object_permission(user, obj) ==
    IF is_superuser(user) THEN TRUE ELSE obj.user = user

SAFE_METHODS == {"GET", "HEAD", "OPTIONS"}

\* faulty variant: any authenticated user may write
has_permission_authenticated(user, method) ==
    IF method \in SAFE_METHODS THEN TRUE ELSE is_authenticated(user)

has_permission(user, method) ==
    IF method \in SAFE_METHODS
    THEN TRUE
    ELSE is_authenticated(user) /\ is_superuser(user)

----------------------------------------------------------------------------
(* restaurantapi/serializers.py *)

\* faulty variant: upper limit off by one
validate_reservation_slot_wide(value) ==
    IF value < 10 \/ value > 21
    THEN [error |-> "InvalidSlot", value |-> value]
    ELSE [error |-> "none", value |-> value]

validate_reservation_slot(value) ==
    IF value < 10 \/ value > 20
    THEN [error |-> "InvalidSlot", value |-> value]
    ELSE [error |-> "none", value |-> value]

\* Booking.objects.filter(reservation_date=..., reservation_slot=...)
filter_date_slot(rows, reservation_date, reservation_slot) ==
    {b \in rows : /\ b.reservation_date = reservation_date
                  /\ b.reservation_slot = reservation_slot}

\* faulty variant: validate() without the slot-taken query
validate_no_conflict(rows, attrs) ==
    LET reservation_slot == IF attrs.reservation_slot = NoSlot
                            THEN 10 ELSE attrs.reservation_slot
        reservation_date == attrs.reservation_date
    IN  IF reservation_date = None
        THEN [error |-> "MissingDate", attrs |-> attrs]
        ELSE [error |-> "none",
              attrs |-> [attrs EXCEPT !.reservation_slot = reservation_slot]]

validate(rows, attrs) ==
    LET reservation_slot == IF attrs.reservation_slot = NoSlot
                            THEN 10 ELSE attrs.reservation_slot
        reservation_date == attrs.reservation_date
    IN  IF reservation_date = None
        THEN [error |-> "MissingDate", attrs |-> attrs]
        ELSE IF filter_date_slot(rows, reservation_date, reservation_slot) # {}
        THEN [error |-> "SlotTaken", attrs |-> attrs]
        ELSE [error |-> "none",
              attrs |-> [attrs EXCEPT !.reservation_slot = reservation_slot]]

\* serializer.is_valid(): the field validator of every present field, and
\* validate() only when no field failed
is_valid(rows, data) ==
    IF /\ data.reservation_slot # NoSlot
       /\ validate_reservation_slot(data.reservation_slot).error # "none"
    THEN [error |-> "InvalidSlot", attrs |-> data]
    ELSE validate(rows, data)

----------------------------------------------------------------------------
(* restaurantapi/views.py: BookingViewSet *)

\* faulty variant: the queryset is not narrowed to the requester
get_queryset_all(rows, user) == rows

get_queryset(rows, user) ==
    IF is_superuser(user) THEN rows ELSE {b \in rows : b.user = user}

\* the lookup half of Booking.objects.get_or_create(user=, reservation_date=)
get_matches(rows, user, reservation_date) ==
    {b \in rows : b.user = user /\ b.reservation_date = reservation_date}

\* the insert half of get_or_create: a new row from the lookup and the defaults
new_booking(id, user, vd) ==
    [id |-> id, user |-> user, first_name |-> vd.first_name,
     reservation_date |-> vd.reservation_date,
     reservation_slot |-> vd.reservation_slot]

\* booking.first_name = ...; booking.reservation_slot = ...; booking.save()
saved_booking(booking, vd) ==
    [booking EXCEPT !.first_name = vd.first_name,
                    !.reservation_slot = vd.reservation_slot]

\* Model.save() of a loaded instance: the row with its primary key is rewritten
write_row(rows, row) == {b \in rows : b.id # row.id} \cup {row}

perform_create(rows, id, user, vd) ==
    LET matches == get_matches(rows, user, vd.reservation_date)
    IN  IF Cardinality(matches) > 1
        THEN [error |-> "MultipleObjectsReturned", created |-> FALSE,
              rows |-> rows, nextId |-> id, instance |-> {}]
        ELSE IF matches = {}
        THEN LET booking == new_booking(id, user, vd)
             IN  [error |-> "none", created |-> TRUE,
                  rows |-> rows \cup {booking}, nextId |-> id + 1,
                  instance |-> {booking}]
        ELSE LET booking == saved_booking(CHOOSE b \in matches : TRUE, vd)
             IN  [error |-> "none", created |-> FALSE,
                  rows |-> write_row(rows, booking), nextId |-> id,
                  instance |-> {booking}]

\* serializer.save() of ModelViewSet.perform_update: every validated attribute
\* is set on the instance; user is a read-only field
perform_update(instance, vd) ==
    [instance EXCEPT
        !.first_name = IF vd.first_name = None THEN @ ELSE vd.first_name,
        !.reservation_date = vd.reservation_date,
        !.reservation_slot = vd.reservation_slot]

----------------------------------------------------------------------------
(* Requests and responses *)

Data(first_name, reservation_date, reservation_slot) ==
    [first_name |-> first_name, reservation_date |-> reservation_date,
     reservation_slot |-> reservation_slot]

NoData == Data(None, None, NoSlot)

\* request bodies; permissions are checked before the body is parsed, so one
\* body stands for all bodies of an anonymous request
CreateData(user) ==
    IF user = Anonymous THEN {NoData}
    ELSE {Data(n, d, s) : n \in Names, d \in Dates \cup {None},
                          s \in Slots \cup {NoSlot}}

PutData(user) ==
    IF user = Anonymous THEN {NoData}
    ELSE {Data(n, d, s) : n \in Names, d \in Dates, s \in Slots}

PatchData(user) ==
    IF user = Anonymous THEN {NoData}
    ELSE {Data(None, d, s) : d \in Dates \cup {None}, s \in Slots \cup {NoSlot}}

\* the response: the view action (or the method), the requester, the primary
\* key of the row a successful request was about, and the outcome
Response(op, user, id, status, error, created) ==
    [op |-> op, user |-> user, id |-> id, status |-> status, error |-> error,
     created |-> created]

\* restaurant/models.py: the constraints the Booking table declares beyond its
\* primary key (none: one booking per user and day is a policy of the
\* resolver, not a constraint of the storage)
model_constraints(rows) == TRUE

\* HTTP status of an error
status_of(error) ==
    CASE error = "Unauthorized" -> 401
      [] error = "Forbidden" -> 403
      [] error = "NotFound" -> 404
      [] error = "MultipleObjectsReturned" -> 500
      [] error = "IntegrityError" -> 500
      [] OTHER -> 400

\* the outcome of a handler: the table, the next primary key, the response
\* and the rows serialized in its body
Outcome(rows, id, resp, body) ==
    [rows |-> rows, nextId |-> id, resp |-> resp, body |-> body]

Rejected(rows, nid, op, user, error) ==
    Outcome(rows, nid, Response(op, user, 0, status_of(error), error, FALSE),
            {})

\* GenericAPIView.get_object(): the permission classes' has_permission, the
\* lookup in get_queryset(), then has_object_permission
get_object(rows, user, id) ==
    LET found == {b \in get_queryset(rows, user) : b.id = id}
    IN  IF ~IsAuthenticated(user) THEN [error |-> "Unauthorized", obj |-> {}]
        ELSE IF found = {} THEN [error |-> "NotFound", obj |-> {}]
        ELSE IF ~has_object_permission(user, CHOOSE b \in found : TRUE)
        THEN [error |-> "Forbidden", obj |-> {}]
        ELSE [error |-> "none", obj |-> found]

\* POST /bookings/ : CreateModelMixin.create() with perform_create(); the
\* response is 201 whatever get_or_create reported
create(rows, nid, user, data) ==
    IF ~IsAuthenticated(user)
    THEN Rejected(rows, nid, "create", user, "Unauthorized")
    ELSE LET v == is_valid(rows, data)
         IN  IF v.error # "none"
             THEN Rejected(rows, nid, "create", user, v.error)
             ELSE LET r == perform_create(rows, nid, user, v.attrs)
                  IN  IF r.error # "none"
                      THEN Rejected(rows, nid, "create", user, r.error)
                      ELSE IF ~model_constraints(r.rows)
                      THEN Rejected(rows, nid, "create", user,
                                    "IntegrityError")
                      ELSE Outcome(r.rows, r.nextId,
                             Response("create", user,
                                      (CHOOSE b \in r.instance : TRUE).id,
                                      201, "none", r.created),
                             r.instance)

\* PUT /bookings/{id}/ (op = "update") and PATCH (op = "partial_update")
update(rows, nid, op, user, id, data) ==
    LET g == get_object(rows, user, id)
    IN  IF g.error # "none"
        THEN Rejected(rows, nid, op, user, g.error)
        ELSE LET v == is_valid(rows, data)
             IN  IF v.error # "none"
                 THEN Rejected(rows, nid, op, user, v.error)
                 ELSE LET row == perform_update(CHOOSE b \in g.obj : TRUE,
                                                v.attrs)
                      IN  IF ~model_constraints(write_row(rows, row))
                          THEN Rejected(rows, nid, op, user, "IntegrityError")
                          ELSE Outcome(write_row(rows, row), nid,
                                 Response(op, user, id, 200, "none", FALSE),
                                 {row})

\* DELETE /bookings/{id}/
destroy(rows, nid, user, id) ==
    LET g == get_object(rows, user, id)
    IN  IF g.error # "none"
        THEN Rejected(rows, nid, "destroy", user, g.error)
        ELSE Outcome(rows \ g.obj, nid,
                     Response("destroy", user, id, 204, "none", FALSE), {})

\* GET /bookings/{id}/
retrieve(rows, nid, user, id) ==
    LET g == get_object(rows, user, id)
    IN  IF g.error # "none"
        THEN Rejected(rows, nid, "retrieve", user, g.error)
        ELSE Outcome(rows, nid,
                     Response("retrieve", user, id, 200, "none", FALSE), g.obj)

\* GET /bookings/
list(rows, nid, user) ==
    IF ~IsAuthenticated(user)
    THEN Rejected(rows, nid, "list", user, "Unauthorized")
    ELSE Outcome(rows, nid, Response("list", user, 0, 200, "none", FALSE),
                 get_queryset(rows, user))

----------------------------------------------------------------------------
(* State *)

IdleReq == [pc |-> "idle", user |-> Anonymous, attrs |-> NoData,
            instance |-> {}, status |-> 0, error |-> "none"]

Init ==
    /\ bookings = {}
    /\ nextId = 1
    /\ menus = {}
    /\ nextMenuId = 1
    /\ reqs = [p \in Procs |-> IdleReq]

----------------------------------------------------------------------------
(* Booking API, one request per step *)

Create ==
    \E user \in Requesters : \E data \in CreateData(user) :
        LET out == create(bookings, nextId, user, data)
        IN  /\ out.nextId <= MaxId + 1
            /\ bookings' = out.rows
            /\ nextId' = out.nextId
            /\ UNCHANGED <<menus, nextMenuId, reqs>>

Update ==
    \E user \in Requesters, id \in Ids : \E data \in PutData(user) :
        LET out == update(bookings, nextId, "update", user, id, data)
        IN  /\ out.nextId <= MaxId + 1
            /\ bookings' = out.rows
            /\ nextId' = out.nextId
            /\ UNCHANGED <<menus, nextMenuId, reqs>>

PartialUpdate ==
    \E user \in Requesters, id \in Ids : \E data \in PatchData(user) :
        LET out == update(bookings, nextId, "partial_update", user, id, data)
        IN  /\ out.nextId <= MaxId + 1
            /\ bookings' = out.rows
            /\ nextId' = out.nextId
            /\ UNCHANGED <<menus, nextMenuId, reqs>>

Destroy ==
    \E user \in Requesters, id \in Ids :
        LET out == destroy(bookings, nextId, user, id)
        IN  /\ out.nextId <= MaxId + 1
            /\ bookings' = out.rows
            /\ nextId' = out.nextId
            /\ UNCHANGED <<menus, nextMenuId, reqs>>

Retrieve ==
    \E user \in Requesters, id \in Ids :
        LET out == retrieve(bookings, nextId, user, id)
        IN  /\ out.nextId <= MaxId + 1
            /\ bookings' = out.rows
            /\ nextId' = out.nextId
            /\ UNCHANGED <<menus, nextMenuId, reqs>>

List ==
    \E user \in Requesters :
        LET out == list(bookings, nextId, user)
        IN  /\ out.nextId <= MaxId + 1
            /\ bookings' = out.rows
            /\ nextId' = out.nextId
            /\ UNCHANGED <<menus, nextMenuId, reqs>>

Next == Create \/ Update \/ PartialUpdate \/ Destroy \/ Retrieve \/ List

Spec == Init /\ [][Next]_vars

----------------------------------------------------------------------------
(* Menu API, one request per step (MenuViewSet) *)

new_menu(id, item) == [id |-> id, title |-> item.title, price |-> item.price]

MenuItems == {[title |-> t, price |-> c] : t \in Titles, c \in Prices}

NoItem == [title |-> None, price |-> 0]

MenuDenied(rows, nid, user, method) ==
    Rejected(rows, nid, method, user,
             IF is_authenticated(user) THEN "Forbidden" ELSE "Unauthorized")

\* a request to /menus/ (id = 0) or /menus/{id}/
menu(rows, nid, user, method, id, item) ==
    LET found == {m \in rows : m.id = id}
    IN  IF ~has_permission(user, method)
        THEN MenuDenied(rows, nid, user, method)
        ELSE IF method = "POST"
        THEN Outcome(rows \cup {new_menu(nid, item)}, nid + 1,
                     Response(method, user, nid, 201, "none", TRUE),
                     {new_menu(nid, item)})
        ELSE IF method = "OPTIONS"
        THEN Outcome(rows, nid, Response(method, user, 0, 200, "none", FALSE),
                     {})
        ELSE IF id = 0
        THEN Outcome(rows, nid, Response(method, user, 0, 200, "none", FALSE),
                     rows)
        ELSE IF found = {}
        THEN Rejected(rows, nid, method, user, "NotFound")
        ELSE IF method \in {"PUT", "PATCH"}
        THEN Outcome(write_row(rows, new_menu(id, item)), nid,
                     Response(method, user, id, 200, "none", FALSE),
                     {new_menu(id, item)})
        ELSE IF method = "DELETE"
        THEN Outcome(rows \ found, nid,
                     Response(method, user, id, 204, "none", FALSE), {})
        ELSE Outcome(rows, nid, Response(method, user, id, 200, "none", FALSE),
                     found)

MenuRead ==
    \E user \in Requesters, method \in SAFE_METHODS, id \in {0} \cup MenuIds :
        LET out == menu(menus, nextMenuId, user, method, id, NoItem)
        IN  /\ out.nextId <= MaxMenuId + 1
            /\ menus' = out.rows
            /\ nextMenuId' = out.nextId
            /\ UNCHANGED <<bookings, nextId, reqs>>

MenuCreate ==
    \E user \in Requesters, item \in MenuItems :
        LET out == menu(menus, nextMenuId, user, "POST", 0, item)
        IN  /\ out.nextId <= MaxMenuId + 1
            /\ menus' = out.rows
            /\ nextMenuId' = out.nextId
            /\ UNCHANGED <<bookings, nextId, reqs>>

MenuUpdate ==
    \E user \in Requesters, method \in {"PUT", "PATCH"}, id \in MenuIds,
       item \in MenuItems :
        LET out == menu(menus, nextMenuId, user, method, id, item)
        IN  /\ out.nextId <= MaxMenuId + 1
            /\ menus' = out.rows
            /\ nextMenuId' = out.nextId
            /\ UNCHANGED <<bookings, nextId, reqs>>

MenuDestroy ==
    \E user \in Requesters, id \in MenuIds :
        LET out == menu(menus, nextMenuId, user, "DELETE", id, NoItem)
        IN  /\ out.nextId <= MaxMenuId + 1
            /\ menus' = out.rows
            /\ nextMenuId' = out.nextId
            /\ UNCHANGED <<bookings, nextId, reqs>>

NextMenu == MenuRead \/ MenuCreate \/ MenuUpdate \/ MenuDestroy

SpecMenu == Init /\ [][NextMenu]_vars

----------------------------------------------------------------------------
(* Two POST /bookings/ requests of authenticated users, one database         *)
(* operation per step: the query of validate(), the query of get_or_create, *)
(* then its INSERT or the UPDATE of booking.save()                          *)

SetReq(p, req) ==
    /\ reqs' = [reqs EXCEPT ![p] = req]
    /\ UNCHANGED <<menus, nextMenuId>>

Receive(p) ==
    /\ reqs[p].pc = "idle"
    /\ \E user \in Users, n \in Names, d \in Dates, s \in ConcSlots :
           SetReq(p, [reqs[p] EXCEPT !.pc = "is_valid", !.user = user,
                                     !.attrs = Data(n, d, s)])
    /\ UNCHANGED <<bookings, nextId>>

IsValid(p) ==
    /\ reqs[p].pc = "is_valid"
    /\ LET v == is_valid(bookings, reqs[p].attrs)
       IN  SetReq(p, IF v.error # "none"
                     THEN [reqs[p] EXCEPT !.pc = "done", !.error = v.error,
                                          !.status = status_of(v.error)]
                     ELSE [reqs[p] EXCEPT !.pc = "get", !.attrs = v.attrs])
    /\ UNCHANGED <<bookings, nextId>>

Get(p) ==
    /\ reqs[p].pc = "get"
    /\ LET matches == get_matches(bookings, reqs[p].user,
                                  reqs[p].attrs.reservation_date)
       IN  SetReq(p, IF Cardinality(matches) > 1
                     THEN [reqs[p] EXCEPT !.pc = "done",
                                          !.error = "MultipleObjectsReturned",
                                          !.status = 500]
                     ELSE IF matches = {}
                     THEN [reqs[p] EXCEPT !.pc = "insert"]
                     ELSE [reqs[p] EXCEPT !.pc = "save", !.instance = matches])
    /\ UNCHANGED <<bookings, nextId>>

Insert(p) ==
    /\ reqs[p].pc = "insert"
    /\ LET booking == new_booking(nextId, reqs[p].user, reqs[p].attrs)
       IN  /\ model_constraints(bookings \cup {booking})
           /\ bookings' = bookings \cup {booking}
           /\ nextId' = nextId + 1
           /\ SetReq(p, [reqs[p] EXCEPT !.pc = "done", !.status = 201,
                                        !.instance = {booking}])

Save(p) ==
    /\ reqs[p].pc = "save"
    /\ LET booking == saved_booking(CHOOSE b \in reqs[p].instance : TRUE,
                                    reqs[p].attrs)
       IN  /\ model_constraints(write_row(bookings, booking))
           /\ bookings' = write_row(bookings, booking)
           /\ SetReq(p, [reqs[p] EXCEPT !.pc = "done", !.status = 201,
                                        !.instance = {booking}])
    /\ UNCHANGED nextId

NextConc ==
    \E p \in Procs : Receive(p) \/ IsValid(p) \/ Get(p) \/ Insert(p) \/ Save(p)

SpecConc == Init /\ [][NextConc]_vars

----------------------------------------------------------------------------
(* Properties.  A property about requests quantifies over the requests and  *)
(* applies the handlers to the reachable state.                             *)

InRange == 10..20
OutOfRange == {9, 21}
SlotProbe == 0..30
Denials == {"Unauthorized", "Forbidden", "NotFound"}
Taxonomy == {"SlotTaken", "InvalidSlot", "MissingDate", "Unauthorized",
             "Forbidden", "NotFound"}

OnDate(rows, d) == {b \in rows : b.reservation_date = d}

\* C1: in every reachable state of the booking API there is at most one
\* stored Booking for each (user, reservation_date) pair.
C1_OnePerUserDate ==
    \A b1 \in bookings, b2 \in bookings :
        (b1.user = b2.user /\ b1.reservation_date = b2.reservation_date)
            => b1 = b2

\* C2: once a POST by U with (D, S1, N1) has made the only booking of date
\* D, a POST by U with (D, S2, N2), for any valid slot S2 (S2 = S1 included)
\* and any name N2, leaves exactly one Booking for (U, D), with slot S2 and
\* name N2.
C2_SecondPostWins ==
    \A b \in bookings :
        OnDate(bookings, b.reservation_date) = {b}
            => \A s2 \in InRange, n2 \in Names :
                   LET out == create(bookings, nextId, b.user,
                                     Data(n2, b.reservation_date, s2))
                       mine == get_matches(out.rows, b.user, b.reservation_date)
                   IN  /\ Cardinality(mine) = 1
                       /\ \A x \in mine : /\ x.reservation_slot = s2
                                          /\ x.first_name = n2

\* C3: when a POST by U1 for (D, S) succeeds, a POST by a different user U2
\* for the same (D, S) right after it is rejected with the slot-taken error
\* and leaves the stored bookings unchanged.
C3_OtherUserRejected ==
    \A u1 \in Users, d \in Dates, s \in InRange, n1 \in Names :
        LET out1 == create(bookings, nextId, u1, Data(n1, d, s))
        IN  out1.resp.error = "none"
                => \A u2 \in Users \ {u1}, n2 \in Names :
                       LET out2 == create(out1.rows, out1.nextId, u2,
                                          Data(n2, d, s))
                       IN  /\ out2.resp.error = "SlotTaken"
                           /\ out2.resp.status = 400
                           /\ out2.rows = out1.rows
                           /\ out2.nextId = out1.nextId

\* C3 witness: U1's booking for (D, S) is stored, and the POST of another
\* user for the same (D, S) is the one rejected as taken.
C3_Witness ==
    \E b \in bookings : \E u2 \in Users \ {b.user} :
        LET out == create(bookings, nextId, u2,
                          Data("Ana", b.reservation_date, b.reservation_slot))
        IN  out.resp.error = "SlotTaken" /\ out.rows = bookings

\* C4: under every interleaving of two concurrent POSTs no state holds two
\* Bookings with the same (reservation_date, reservation_slot), nor two
\* Bookings of the same user on the same date.
C4_CheckThenWriteAtomic ==
    \A b1 \in bookings, b2 \in bookings :
        b1.id # b2.id
            => /\ ~(/\ b1.reservation_date = b2.reservation_date
                    /\ b1.reservation_slot = b2.reservation_slot)
               /\ ~(/\ b1.reservation_date = b2.reservation_date
                    /\ b1.user = b2.user)

\* C5: a successful POST answers 201 exactly when no Booking for (requester,
\* date) existed before it, and 200 exactly when one existed and was updated.
C5_CreatedOrUpdatedStatus ==
    \A user \in Users : \A data \in CreateData(user) :
        LET out == create(bookings, nextId, user, data)
            existed == get_matches(bookings, user, data.reservation_date) # {}
        IN  out.resp.error = "none"
                => /\ (out.resp.status = 201) <=> ~existed
                   /\ (out.resp.status = 200) <=> existed

\* C6: retrieve, update and delete of a stored Booking are permitted iff the
\* requester is a superuser or its owner; a denied request changes nothing;
\* listing returns all bookings to a superuser and the requester's own to any
\* other authenticated user; no request removes or changes a booking of
\* another user unless the requester is a superuser.
C6_OwnerOrSuperuser ==
    \A user \in Requesters :
        LET allowed(b) == is_superuser(user) \/ b.user = user
            onRow(b) ==
                {retrieve(bookings, nextId, user, b.id),
                 destroy(bookings, nextId, user, b.id)}
                \cup {update(bookings, nextId, "update", user, b.id, d) :
                        d \in PutData(user)}
                \cup {update(bookings, nextId, "partial_update", user, b.id,
                             d) : d \in PatchData(user)}
            any == UNION {onRow(b) : b \in bookings}
                   \cup {create(bookings, nextId, user, d) :
                           d \in CreateData(user)}
                   \cup {list(bookings, nextId, user)}
        IN  /\ \A b \in bookings : \A out \in onRow(b) :
                /\ (out.resp.error \notin Denials) <=> allowed(b)
                /\ (out.resp.error \in Denials) => out.rows = bookings
            /\ is_authenticated(user)
                => list(bookings, nextId, user).body =
                       IF is_superuser(user) THEN bookings
                       ELSE {b \in bookings : b.user = user}
            /\ \A out \in any : \A b \in bookings :
                   b \notin out.rows => allowed(b)

\* C6 witness: two users who are not superusers each own a booking; the
\* delete of the other's booking is denied, the delete of one's own is not,
\* and the list of one of them leaves the other's booking out.
C6_Witness ==
    \E b1 \in bookings, b2 \in bookings :
        /\ b1.user # b2.user
        /\ ~is_superuser(b1.user) /\ ~is_superuser(b2.user)
        /\ destroy(bookings, nextId, b1.user, b2.id).resp.error \in Denials
        /\ destroy(bookings, nextId, b1.user, b1.id).resp.error = "none"
        /\ b2 \notin list(bookings, nextId, b1.user).body

\* C7: a read-only Menu request is permitted for every requester, a mutating
\* one iff the requester is an authenticated superuser, and the Menu rows
\* change only by requests of a superuser.
C7_MenuGate ==
    \A user \in Requesters, method \in Methods, id \in {0} \cup MenuIds,
       item \in MenuItems :
        LET out == menu(menus, nextMenuId, user, method, id, item)
            permitted == out.resp.error \notin {"Unauthorized", "Forbidden"}
        IN  /\ method \in {"GET", "HEAD", "OPTIONS"} => permitted
            /\ method \in {"POST", "PUT", "PATCH", "DELETE"}
                  => (permitted <=>
                        (is_authenticated(user) /\ is_superuser(user)))
            /\ ~permitted => /\ out.rows = menus
                             /\ out.resp.status \in {401, 403}
            /\ out.rows # menus => is_superuser(user)

\* C7 witness: the menu holds a row (a superuser's POST went through), the
\* DELETE of it by an authenticated user who is not a superuser is refused,
\* and an anonymous GET of it is answered.
C7_Witness ==
    \E m \in menus :
        /\ menu(menus, nextMenuId, "alice", "DELETE", m.id, NoItem).resp.error
               = "Forbidden"
        /\ menu(menus, nextMenuId, Anonymous, "GET", m.id, NoItem).body = {m}

\* C8: the slot validator accepts s iff 10 <= s <= 20 and returns it
\* unchanged; every stored Booking has its slot in 10..20; a create or update
\* with an out-of-range slot is rejected and writes or changes no row.
C8_SlotRange ==
    /\ \A s \in SlotProbe :
           /\ (validate_reservation_slot(s).error = "none")
                  <=> (10 <= s /\ s <= 20)
           /\ validate_reservation_slot(s).error = "none"
                  => validate_reservation_slot(s).value = s
    /\ \A b \in bookings : b.reservation_slot \in InRange
    /\ \A user \in Requesters, n \in Names \cup {None}, d \in Dates \cup {None},
          s \in OutOfRange :
           LET outs == {create(bookings, nextId, user, Data(n, d, s))}
                       \cup {update(bookings, nextId, op, user, id,
                                    Data(n, d, s)) :
                               op \in {"update", "partial_update"}, id \in Ids}
           IN  \A out \in outs : /\ out.resp.status >= 400
                                 /\ out.resp.status < 500
                                 /\ out.rows = bookings
                                 /\ out.nextId = nextId

\* C8 witness: bookings with the lowest slot and with the highest slot are
\* stored, and the owner's requests to move one to slot 9 and to slot 21 are
\* refused for the slot.
C8_Witness ==
    \E b1 \in bookings, b2 \in bookings :
        /\ b1.reservation_slot = 10
        /\ b2.reservation_slot = 20
        /\ \A s \in OutOfRange :
               update(bookings, nextId, "update", b1.user, b1.id,
                      Data("Ana", b1.reservation_date, s)).resp.error
                   = "InvalidSlot"

\* C9: once a POST (U, D, S, N) has succeeded, so that its Booking is stored,
\* the identical POST succeeds too, returns the same Booking and leaves the
\* store as it was.
C9_RepeatIdempotent ==
    \A b \in bookings :
        LET out == create(bookings, nextId, b.user,
                          Data(b.first_name, b.reservation_date,
                               b.reservation_slot))
        IN  /\ out.resp.error = "none"
            /\ out.body = {b}
            /\ out.rows = bookings

\* C10: a POST by an authenticated user with a date and an in-range slot ends
\* in success or in one of the request-scoped errors of the taxonomy; the
\* lookup of the requester's booking never fails on more than one match.
C10_PostEndsInTaxonomy ==
    \A user \in Users, d \in Dates, s \in InRange, n \in Names :
        create(bookings, nextId, user, Data(n, d, s)).resp.error
            \in Taxonomy \cup {"none"}

====
